---- MODULE Spec2Model ----
(***************************************************************************)
(* Playback controller (SVGPlayer), display handle (SVGDisplay), morph     *)
(* engine (SVGMorpher) and caption timing (textProcessing) of the process  *)
(* visualiser.                                                             *)
(*                                                                         *)
(* Time is counted in units of the 500 ms inter-stage pause.  The browser  *)
(* runs one callback at a time to completion, so every handler is one      *)
(* atomic action.  A 30 ms polling interval and a ~16 ms animation frame   *)
(* are finer than one unit: each active interval and each pending frame    *)
(* loop runs once per unit, and time advances only when nothing is due.    *)
(* Text is a sequence of one-character strings.  Numbers the code holds    *)
(* as floats are exact rationals here (numerator, denominator), or         *)
(* integers where the code's inputs are integers.                          *)
(***************************************************************************)
EXTENDS Integers, Sequences, FiniteSets, TLC

\* ---------------------------------------------------------------- bounds
MaxStages == 3
MaxSegDur == 2
MaxTime == 5
MaxPlays == 3
MaxStops == 2
MaxCalls == 4
MaxPieces == 4
MaxScripts == 5

\* ------------------------------------------------------ program constants
PauseMs == 500
VoicePauseMs == 500
WordsPerMinute == 160
SnippetMs == 800
MorphMs == 1500
LookaheadMs == 100
MinWeight == 10
DefaultChannel == 255

UnitMs == PauseMs
PauseDelay == PauseMs \div UnitMs
MorphDuration == MorphMs \div UnitMs

\* ---------------------------------------------------------------- helpers
Min(a, b) == IF a < b THEN a ELSE b
Max(a, b) == IF a > b THEN a ELSE b
Range(s) == {s[i] : i \in 1..Len(s)}
FreshId(used) == CHOOSE i \in 1..(Cardinality(used) + 1) :
                   i \notin used /\ \A j \in 1..(i - 1) : j \in used

RECURSIVE SumSeq(_)
SumSeq(s) == IF Len(s) = 0 THEN 0 ELSE s[1] + SumSeq(Tail(s))

\* ------------------------------------------------------- text processing
IsSpace(c) == c \in {" ", "\t", "\n"}
SentenceMarks == {".", "!", "?"}
ClauseMarks == {"!", ":", ";", ",", ".", "?"}

RECURSIVE SkipSpaces(_, _)
SkipSpaces(s, i) == IF i <= Len(s) /\ IsSpace(s[i]) THEN SkipSpaces(s, i + 1) ELSE i

\* String.prototype.split(/(?<=[marks])\s+/): a match starts at a whitespace
\* character whose predecessor is a mark and takes the whole whitespace run.
RECURSIVE SplitAfter(_, _, _, _)
SplitAfter(s, marks, i, cur) ==
  IF i > Len(s) THEN <<cur>>
  ELSE IF IsSpace(s[i]) /\ i > 1 /\ s[i - 1] \in marks
       THEN <<cur>> \o SplitAfter(s, marks, SkipSpaces(s, i), <<>>)
       ELSE SplitAfter(s, marks, i + 1, Append(cur, s[i]))

RECURSIVE TrimLeft(_)
TrimLeft(s) == IF s # <<>> /\ IsSpace(s[1]) THEN TrimLeft(Tail(s)) ELSE s

RECURSIVE TrimRight(_)
TrimRight(s) == IF s # <<>> /\ IsSpace(s[Len(s)])
                THEN TrimRight(SubSeq(s, 1, Len(s) - 1)) ELSE s

Trim(s) == TrimRight(TrimLeft(s))

RECURSIVE TrimAndDrop(_)
TrimAndDrop(pieces) ==
  IF pieces = <<>> THEN <<>>
  ELSE LET t == Trim(pieces[1])
       IN (IF Len(t) > 0 THEN <<t>> ELSE <<>>) \o TrimAndDrop(Tail(pieces))

\* In the definitions below a bound variable (p, c, w) holds an intermediate
\* result, so that it is computed once.
SplitTrimDrop(text, marks) ==
  CHOOSE r \in {TrimAndDrop(p) : p \in {SplitAfter(text, marks, 1, <<>>)}} : TRUE

splitIntoSentences(script) == SplitTrimDrop(script, SentenceMarks)
splitIntoClausesAtSentenceMarks(script) == SplitTrimDrop(script, SentenceMarks)

splitIntoClauses(script) == SplitTrimDrop(script, ClauseMarks)
getClausesAtSentenceMarks(sentence) == SplitTrimDrop(sentence, SentenceMarks)

getClausesForSentence(sentence) == SplitTrimDrop(sentence, ClauseMarks)

\* CaptionPanel: the clauses of each sentence with the global index of the
\* first and the last of them
RECURSIVE ClauseMapFrom(_, _)
ClauseMapFrom(sentences, globalClauseIndex) ==
  IF Len(sentences) = 0 THEN <<>>
  ELSE LET clausesInSentence == getClausesForSentence(sentences[1])
           after == globalClauseIndex + Len(clausesInSentence)
       IN <<[sentence |-> sentences[1], clauses |-> clausesInSentence,
             startClauseIndex |-> globalClauseIndex, endClauseIndex |-> after - 1]>>
            \o ClauseMapFrom(Tail(sentences), after)

sentenceClauseMap(script) == ClauseMapFrom(splitIntoSentences(script), 0)

\* sentenceClauseMap.findIndex(...): 0-based, -1 when no sentence holds the clause
activeSentenceIndex(map, clauseIndex) ==
  LET holds == {k \in 1..Len(map) : /\ clauseIndex >= map[k].startClauseIndex
                                     /\ clauseIndex <= map[k].endClauseIndex}
  IN IF holds = {} THEN -1 ELSE (CHOOSE k \in holds : \A j \in holds : k <= j) - 1

ClauseWeightsNoFloor(clauses) == [i \in 1..Len(clauses) |-> Len(clauses[i])]

ClauseWeights(clauses) == [i \in 1..Len(clauses) |-> Max(Len(clauses[i]), MinWeight)]

\* The start offset of clause i is duration * (w_1 + .. + w_(i-1)) / totalWeight,
\* kept as the pair num / den; duration is in milliseconds.
TimingsOfWeights(weights, totalWeight, duration) ==
  [i \in 1..Len(weights) |->
     [num |-> SumSeq(SubSeq(weights, 1, i - 1)) * duration, den |-> totalWeight]]

calculateClauseTimings(clauses, duration) ==
  CHOOSE r \in {TimingsOfWeights(w, SumSeq(w), duration) :
                  w \in {ClauseWeights(c) : c \in {clauses}}} : TRUE

\* The scan of the polling tick: the last index (0-based) of the leading run of
\* offsets that are <= timeInSegment (milliseconds), -1 when the run is empty.
RECURSIVE ClauseScan(_, _, _, _)
ClauseScan(timings, timeInSegment, i, clauseIdx) ==
  IF i > Len(timings) THEN clauseIdx
  ELSE IF timeInSegment * timings[i].den >= timings[i].num
       THEN ClauseScan(timings, timeInSegment, i + 1, i - 1)
       ELSE clauseIdx

\* ------------------------------------------------------------------ state
VARIABLES
  \* inputs of the session (immutable once received)
  stages,              \* props.stages: sequence of [svg, script]
  segments,            \* combinedAudio.segments: [startTime, endTime, duration], time units
  audioDuration,       \* audio.duration: the real length of the combined track
  \* SVGPlayer state and refs
  currentStageIndex, isPlaying, isLoading, combinedAudio, progress, currentClauseIndex,
  audioRef,            \* id of the audio element, 0 = null
  progressIntervalRef, \* id of the interval created last, 0 = null
  clauseTimingsRef,
  \* browser objects
  audios,              \* reachable audio elements: id -> [currentTime, paused]
  intervals,           \* active setInterval callbacks with what their closure captured
  timeouts,            \* pending setTimeout callbacks
  frames,              \* pending requestAnimationFrame callbacks (one per morph loop)
  now,                 \* the clock, in time units
  \* SVGDisplay / SVGMorpher
  container,           \* children of the svg-container div: <<>> or <<tree>>
  startTime,           \* SVGMorpher.startTime, 0 = null
  animationFrame,      \* SVGMorpher.animationFrame, 0 = null
  \* history (observation only; effects never read it, plays/stops/calls only bound)
  \* completions counts onComplete() since the last play() or stop()
  plays, stops, calls, idleSinceStop, stopMid, completions, audiosCreated,
  displayLog, finished,
  \* the direct call of the display handle or of a text function that has just
  \* returned, with its arguments and its result; <<>> otherwise
  lastCall

inputVars == <<stages, segments, audioDuration>>
playerVars == <<currentStageIndex, isPlaying, isLoading, combinedAudio, progress,
                currentClauseIndex, audioRef, progressIntervalRef, clauseTimingsRef>>
timerVars == <<audios, intervals, timeouts>>
engineVars == <<container, startTime, animationFrame, frames>>
historyVars == <<plays, stops, calls, idleSinceStop, stopMid, completions, audiosCreated,
                 displayLog, finished, lastCall>>
vars == <<inputVars, playerVars, timerVars, engineVars, now, historyVars>>

\* ----------------------------------------------------------- morph engine
MorphAttrs == {"cx", "cy", "r", "rx", "ry", "x", "y", "width", "height",
               "fill", "stroke", "opacity", "stroke-width"}
AttrType(attr) == IF attr = "fill" \/ attr = "stroke" THEN "color" ELSE "number"

\* A colour attribute's raw string: "#rrggbb" is [fmt |-> "hex6", r, g, b]; a
\* string without a leading '#' (a colour name, "none") is [fmt |-> "name", ..].
Hex(r, g, b) == [fmt |-> "hex6", r |-> r, g |-> g, b |-> b]
Named == [fmt |-> "name", r |-> 0, g |-> 0, b |-> 0]
\* "#abc": r, g, b hold its three hexadecimal digits
Hex3(a, b, c) == [fmt |-> "hex3", r |-> a, g |-> b, b |-> c]
\* the channel value NaN: parseInt("", 16), and whatever is computed from it
NotANumber == 0 - 1

\* Numeric attributes are fixed-point: the integer n is held as n * EaseDen, so
\* that every value an undisturbed morph between integers writes is exact.
EaseDen == MorphDuration * MorphDuration * MorphDuration
Num(n) == n * EaseDen

\* hex.slice(0, 2), hex.slice(2, 4), hex.slice(4, 6) of "#abc" are "ab", "c", ""
parseColor(color) ==
  IF color.fmt = "hex6" THEN [r |-> color.r, g |-> color.g, b |-> color.b]
  ELSE IF color.fmt = "hex3"
  THEN [r |-> 16 * color.r + color.g, g |-> color.b, b |-> NotANumber]
  ELSE [r |-> DefaultChannel, g |-> DefaultChannel, b |-> DefaultChannel]

\* Math.round(c1 + (c2 - c1) * progress), progress = p / EaseDen
RoundChannel(c1, c2, p) ==
  IF c1 = NotANumber \/ c2 = NotANumber THEN NotANumber
  ELSE (2 * (c1 * EaseDen + (c2 - c1) * p) + EaseDen) \div (2 * EaseDen)

interpolateColor(color1, color2, p) ==
  LET c1 == parseColor(color1)
      c2 == parseColor(color2)
  IN Hex(RoundChannel(c1.r, c2.r, p), RoundChannel(c1.g, c2.g, p),
         RoundChannel(c1.b, c2.b, p))

interpolateNumber(start, end, p) == start + ((end - start) * p) \div EaseDen

\* easeInOutCubic(e / MorphDuration), as a numerator over EaseDen
easeInOutCubic(e) ==
  LET d == MorphDuration
  IN IF 2 * e < d THEN 4 * e * e * e
     ELSE d * d * d - 4 * (d - e) * (d - e) * (d - e)

\* querySelectorAll('[id]') in document order, each element overwriting the
\* entry of its id: the index of the last element carrying the id.
ElementsById(svg) ==
  LET ids == {svg[i].id : i \in 1..Len(svg)} \ {""}
  IN [id \in ids |-> CHOOSE i \in 1..Len(svg) :
                       svg[i].id = id /\ \A j \in (i + 1)..Len(svg) : svg[j].id # id]

\* transition entries recorded without comparing the two raw values
TransitionsOfEqualToo(fromSVG, toSVG) ==
  LET fromElements == ElementsById(fromSVG)
      toElements == ElementsById(toSVG)
  IN {[el |-> fromElements[id], attr |-> a,
       from |-> fromSVG[fromElements[id]].attrs[a],
       to |-> toSVG[toElements[id]].attrs[a],
       type |-> AttrType(a)] :
        <<id, a>> \in {x \in (DOMAIN fromElements \cap DOMAIN toElements) \X MorphAttrs :
           /\ x[2] \in DOMAIN fromSVG[fromElements[x[1]]].attrs
           /\ x[2] \in DOMAIN toSVG[toElements[x[1]]].attrs}}

Transitions(fromSVG, toSVG) ==
  LET fromElements == ElementsById(fromSVG)
      toElements == ElementsById(toSVG)
  IN {[el |-> fromElements[id], attr |-> a,
       from |-> fromSVG[fromElements[id]].attrs[a],
       to |-> toSVG[toElements[id]].attrs[a],
       type |-> AttrType(a)] :
        <<id, a>> \in {x \in (DOMAIN fromElements \cap DOMAIN toElements) \X MorphAttrs :
           /\ x[2] \in DOMAIN fromSVG[fromElements[x[1]]].attrs
           /\ x[2] \in DOMAIN toSVG[toElements[x[1]]].attrs
           /\ fromSVG[fromElements[x[1]]].attrs[x[2]]
                # toSVG[toElements[x[1]]].attrs[x[2]]}}

FrameValue(t, p) == IF t.type = "color" THEN interpolateColor(t.from, t.to, p)
                    ELSE interpolateNumber(t.from, t.to, p)

\* transition.element.setAttribute(attr, value) for every transition entry
ApplyTransitions(els, trans, p) ==
  [i \in 1..Len(els) |->
     [els[i] EXCEPT !.attrs =
        [a \in DOMAIN els[i].attrs |->
           IF \E t \in trans : t.el = i /\ t.attr = a
           THEN FrameValue(CHOOSE t \in trans : t.el = i /\ t.attr = a, p)
           ELSE els[i].attrs[a]]]]

FrameIds == {f.id : f \in frames}
TreeGens == {container[i].gen : i \in 1..Len(container)} \cup {f.gen : f \in frames}

\* SVGMorpher.morph(fromSVG, toSVG): the transitions are computed once and the
\* first frame is requested; this.startTime is not touched.
morph(fromTree, toSVG) ==
  LET h == FreshId(FrameIds \cup {animationFrame})
  IN /\ frames' = {[f EXCEPT !.solo = FALSE] : f \in frames} \cup
                  {[id |-> h, due |-> now, gen |-> fromTree.gen,
                    trans |-> Transitions(fromTree.els, toSVG), target |-> toSVG,
                    solo |-> frames = {}, stale |-> FALSE, first |-> 0]}
     /\ animationFrame' = h
     /\ UNCHANGED <<container, startTime>>

displayStageAlwaysMorph(svg, animate) ==
  IF isLoading
  THEN UNCHANGED engineVars
  ELSE IF Len(container) = 0
       THEN /\ container' = <<[gen |-> FreshId(TreeGens), els |-> svg]>>
            /\ UNCHANGED <<startTime, animationFrame, frames>>
       ELSE morph(container[1], svg)

\* SVGDisplayHandle.displayStage(svg, animate)
displayStage(svg, animate) ==
  IF isLoading
  THEN UNCHANGED engineVars
  ELSE IF ~animate \/ Len(container) = 0
       THEN /\ container' = <<[gen |-> FreshId(TreeGens), els |-> svg]>>
            /\ UNCHANGED <<startTime, animationFrame, frames>>
       ELSE morph(container[1], svg)

\* SVGMorpher.cancel(); the loops it leaves pending are marked (history)
cancel ==
  IF animationFrame # 0
  THEN /\ frames' = {[f EXCEPT !.stale = TRUE] : f \in {g \in frames : g.id # animationFrame}}
       /\ animationFrame' = 0
       /\ startTime' = 0
       /\ UNCHANGED container
  ELSE /\ frames' = {[f EXCEPT !.stale = TRUE] : f \in frames}
       /\ UNCHANGED <<container, startTime, animationFrame>>

\* if (!this.startTime) this.startTime = timestamp
LatchedStart == IF startTime = 0 THEN now ELSE startTime

\* Math.min((timestamp - this.startTime) / this.duration, 1), in time units
RawProgress == Min(now - LatchedStart, MorphDuration)

MorphDoneNever(rawProgress) == rawProgress > MorphDuration

\* the else branch of `if (rawProgress < 1)`
MorphDone(rawProgress) == ~(rawProgress < MorphDuration)

\* One run of the animate callback of the morph loop f; first is the time of
\* the loop's first callback (history).
Frame(f) ==
  /\ f \in frames
  /\ f.due <= now
  /\ LET st == LatchedStart
         rawProgress == RawProgress
         p == easeInOutCubic(rawProgress)
     IN /\ container' = [i \in 1..Len(container) |->
                           IF container[i].gen = f.gen
                           THEN [container[i] EXCEPT
                                   !.els = ApplyTransitions(container[i].els, f.trans, p)]
                           ELSE container[i]]
        /\ IF ~MorphDone(rawProgress)
           THEN /\ frames' = (frames \ {f}) \cup
                               {[f EXCEPT !.due = now + 1,
                                          !.first = IF f.first = 0 THEN now ELSE @]}
                /\ animationFrame' = f.id
                /\ startTime' = st
                /\ finished' = <<>>
           ELSE /\ frames' = frames \ {f}
                /\ startTime' = 0
                /\ UNCHANGED animationFrame
                /\ finished' = <<[target |-> f.target, gen |-> f.gen, solo |-> f.solo]>>
  /\ lastCall' = <<>>
  /\ UNCHANGED <<inputVars, playerVars, timerVars, now,
                 plays, stops, calls, idleSinceStop, stopMid, completions, audiosCreated,
                 displayLog>>

\* ------------------------------------------------------- session inputs
Prim(id, attrs) == [id |-> id, attrs |-> attrs]

DiagramA == <<Prim("a", ("cx" :> Num(1)) @@ ("fill" :> Hex(255, 0, 0))),
              Prim("", ("cx" :> Num(5)))>>
DiagramB == <<Prim("a", ("cx" :> Num(4)) @@ ("fill" :> Hex(0, 0, 255)) @@ ("r" :> Num(2))),
              Prim("b", ("cx" :> Num(7)))>>
DiagramC == <<Prim("a", ("cx" :> Num(2)) @@ ("fill" :> Named)),
              Prim("a", ("cx" :> Num(9)) @@ ("class" :> Num(0)) @@ ("fill" :> Named))>>
DiagramD == <<Prim("a", ("cx" :> Num(1)) @@ ("fill" :> Hex3(3, 3, 3)))>>
Diagrams == <<DiagramA, DiagramB, DiagramC, DiagramD>>

ScriptA == <<"H", "i", ",", " ", "a", "l", "l", ".", " ", "G", "o", "!">>
ScriptB == <<"A", ",", " ", "b", "c", "d", "e", "f", "g", "h", "i", "j", "k", "l", "m", "n", "o", ".">>
ScriptC == <<"D", "o", "n", "e">>
Scripts == <<ScriptA, ScriptB, ScriptC>>

\* stage k (1-based here, stages[k - 1] in the code)
StageOf(k) == [svg |-> Diagrams[((k - 1) % Len(Diagrams)) + 1],
               script |-> Scripts[((k - 1) % Len(Scripts)) + 1]]

\* Segments are contiguous slices of the combined track, one per script.
SegmentsOf(durs) ==
  [k \in 1..Len(durs) |->
     [startTime |-> SumSeq(SubSeq(durs, 1, k - 1)),
      endTime |-> SumSeq(SubSeq(durs, 1, k - 1)) + durs[k],
      duration |-> durs[k]]]

NumStages == Len(stages)
LastEnd == segments[Len(segments)].endTime

\* ------------------------------------------------------ playback controller
RECURSIVE GCD(_, _)
GCD(a, b) == IF b = 0 THEN a ELSE GCD(b, a % b)
Pct(n) == [num |-> n, den |-> 1]

\* Math.min(Math.max(((currentTime - startTime) / duration) * 100, 0), 100)
SegmentProgress(currentTime, segment) ==
  LET d == currentTime - segment.startTime
  IN IF d <= 0 THEN Pct(0)
     ELSE IF d >= segment.duration THEN Pct(100)
     ELSE LET g == GCD(100 * d, segment.duration)
          IN [num |-> (100 * d) \div g, den |-> segment.duration \div g]

ClauseAt(timings, currentTime, segment) ==
  ClauseScan(timings, (currentTime - segment.startTime) * UnitMs + LookaheadMs, 1, -1)

\* timings that would depend on how often play() has run
StageTimingsByRun(stageIndex) ==
  calculateClauseTimings(splitIntoClauses(stages[stageIndex + 1].script),
                         segments[stageIndex + 1].duration * UnitMs + plays)

StageTimings(stageIndex) ==
  calculateClauseTimings(splitIntoClauses(stages[stageIndex + 1].script),
                         segments[stageIndex + 1].duration * UnitMs)

\* Audio elements no ref and no interval closure holds are garbage.
Reachable(auds, ref, ivs) ==
  [a \in (DOMAIN auds) \cap ({ref} \cup {iv.audio : iv \in ivs}) |-> auds[a]]

IntervalIds == {iv.id : iv \in intervals}
TimeoutIds == {t.id : t \in timeouts}

\* history: the displayStage calls playStage has made since the last play()
LogDisplay(log, stageIndex) ==
  Append(log, [stage |-> stageIndex, animate |-> stageIndex > 0])

\* playStage(stageIndex) up to its await; stageIndex is 0-based as in the code.
playStage(stageIndex) ==
  IF ~combinedAudio
  THEN /\ UNCHANGED engineVars
       /\ UNCHANGED <<clauseTimingsRef, currentClauseIndex, audioRef, audios, intervals,
                      progressIntervalRef, audiosCreated>>
  ELSE LET segment == segments[stageIndex + 1]
           create == audioRef = 0
           audio == IF create THEN FreshId(DOMAIN audios) ELSE audioRef
           iv == FreshId(IntervalIds \cup {progressIntervalRef})
       IN /\ displayStage(stages[stageIndex + 1].svg, stageIndex > 0)
          /\ clauseTimingsRef' = StageTimings(stageIndex)
          /\ currentClauseIndex' = -1
          /\ audioRef' = audio
          /\ audiosCreated' = audiosCreated + (IF create THEN 1 ELSE 0)
          /\ audios' = (audio :> [currentTime |-> Min(segment.startTime, audioDuration),
                                  paused |-> FALSE])
                       @@ audios
          /\ intervals' = intervals \cup
                          {[id |-> iv, stage |-> stageIndex, audio |-> audio,
                            timings |-> StageTimings(stageIndex),
                            due |-> now, stale |-> FALSE]}
          /\ progressIntervalRef' = iv

handlePlayUnguarded ==
  /\ isPlaying' = TRUE
  /\ currentStageIndex' = 0
  /\ progress' = Pct(0)
  /\ playStage(0)

\* handlePlay
handlePlay ==
  IF ~combinedAudio
  THEN /\ UNCHANGED <<isPlaying, currentStageIndex, progress, engineVars>>
       /\ UNCHANGED <<clauseTimingsRef, currentClauseIndex, audioRef, audios, intervals,
                      progressIntervalRef, audiosCreated>>
  ELSE /\ isPlaying' = TRUE
       /\ currentStageIndex' = 0
       /\ progress' = Pct(0)
       /\ playStage(0)

\* The Play button, shown while nothing is playing and enabled once the audio is
\* there, is clicked.
PlayClicked ==
  /\ ~isPlaying /\ ~isLoading
  /\ combinedAudio
  /\ plays < MaxPlays
  /\ handlePlay
  /\ displayLog' = LogDisplay(<<>>, 0)
  /\ plays' = plays + 1
  /\ idleSinceStop' = FALSE
  /\ finished' = <<>>
  /\ completions' = 0
  /\ lastCall' = <<>>
  /\ UNCHANGED <<inputVars, isLoading, combinedAudio, timeouts, now, stops, calls,
                 stopMid>>

\* handlePlay is invoked after the voiceover request has failed: the audio and
\* its segments are not available.
PlayWithoutAudio ==
  /\ ~isPlaying /\ ~isLoading
  /\ ~combinedAudio
  /\ calls < MaxCalls
  /\ handlePlay
  /\ calls' = calls + 1
  /\ finished' = <<>>
  /\ lastCall' = <<>>
  /\ UNCHANGED <<inputVars, isLoading, combinedAudio, timeouts, now, plays, stops,
                 idleSinceStop, stopMid, completions, displayLog>>

SegmentEndedStrict(currentTime, segment) == currentTime > segment.endTime

\* if (audio.currentTime >= segment.endTime)
SegmentEnded(currentTime, segment) == currentTime >= segment.endTime

\* One run of the setInterval callback iv created by playStage(iv.stage).
PollTick(iv) ==
  /\ iv \in intervals
  /\ iv.due <= now
  /\ LET audio == audios[iv.audio]
         segment == segments[iv.stage + 1]
         again == [iv EXCEPT !.due = now + 1]
         rest == (intervals \ {iv}) \cup {again}
     IN IF audio.currentTime # 0 /\ audioDuration # 0
        THEN IF SegmentEnded(audio.currentTime, segment)
             THEN LET kept == IF progressIntervalRef # 0
                              THEN {i \in rest : i.id # progressIntervalRef}
                              ELSE rest
                  IN /\ intervals' = kept
                     /\ audios' = Reachable([audios EXCEPT ![iv.audio].paused = TRUE],
                                            audioRef, kept)
                     /\ progress' = Pct(100)
                     /\ currentClauseIndex' = -1
                     /\ IF iv.stage < NumStages - 1
                        THEN /\ timeouts' = timeouts \cup
                                  {[id |-> FreshId(TimeoutIds), stage |-> iv.stage + 1,
                                    due |-> now + PauseDelay, stale |-> iv.stale]}
                             /\ UNCHANGED <<isPlaying, completions>>
                        ELSE /\ isPlaying' = FALSE
                             /\ completions' = completions + 1
                             /\ UNCHANGED timeouts
             ELSE /\ progress' = SegmentProgress(audio.currentTime, segment)
                  /\ currentClauseIndex' =
                       ClauseAt(iv.timings, audio.currentTime, segment)
                  /\ intervals' = rest
                  /\ UNCHANGED <<audios, timeouts, isPlaying, completions>>
        ELSE /\ intervals' = rest
             /\ UNCHANGED <<audios, timeouts, isPlaying, completions, progress,
                            currentClauseIndex>>
  /\ finished' = <<>>
  /\ lastCall' = <<>>
  /\ UNCHANGED <<inputVars, currentStageIndex, isLoading, combinedAudio, audioRef,
                 progressIntervalRef, clauseTimingsRef, engineVars, now,
                 plays, stops, calls, idleSinceStop, stopMid, audiosCreated, displayLog>>

\* The setTimeout callback scheduled at the end of segment t.stage - 1.
StageTimeout(t) ==
  /\ t \in timeouts
  /\ t.due <= now
  /\ timeouts' = timeouts \ {t}
  /\ currentStageIndex' = t.stage
  /\ progress' = Pct(0)
  /\ playStage(t.stage)
  /\ displayLog' = IF combinedAudio THEN LogDisplay(displayLog, t.stage) ELSE displayLog
  /\ finished' = <<>>
  /\ lastCall' = <<>>
  /\ UNCHANGED <<inputVars, isPlaying, isLoading, combinedAudio, now,
                 plays, stops, calls, idleSinceStop, stopMid, completions>>

MarkStale(S) == {[x EXCEPT !.stale = TRUE] : x \in S}

\* handleStop, offered by the Stop button while isPlaying
handleStop ==
  /\ isPlaying
  /\ stops < MaxStops
  /\ LET kept == IF progressIntervalRef # 0
                 THEN {i \in intervals : i.id # progressIntervalRef}
                 ELSE intervals
         paused == IF audioRef # 0 THEN [audios EXCEPT ![audioRef].paused = TRUE]
                   ELSE audios
         left == IF animationFrame # 0 THEN {f \in frames : f.id # animationFrame}
                 ELSE frames
     IN /\ audioRef' = 0
        /\ audios' = Reachable(paused, 0, kept)
        /\ intervals' = MarkStale(kept)
        /\ timeouts' = MarkStale(timeouts)
        /\ frames' = MarkStale(left)
        /\ animationFrame' = 0
        /\ startTime' = IF animationFrame # 0 THEN 0 ELSE startTime
        /\ UNCHANGED container
  /\ isPlaying' = FALSE
  /\ currentStageIndex' = 0
  /\ progress' = Pct(0)
  /\ currentClauseIndex' = -1
  /\ stops' = stops + 1
  /\ idleSinceStop' = TRUE
  /\ stopMid' = (intervals # {})
  /\ completions' = 0
  /\ finished' = <<>>
  /\ lastCall' = <<>>
  /\ UNCHANGED <<inputVars, isLoading, combinedAudio, progressIntervalRef,
                 clauseTimingsRef, now, plays, calls, audiosCreated, displayLog>>

\* generateCombinedVoiceover resolves: the segments arrive, the container is
\* mounted again and the initial-display effect shows stage 0 without animation.
VoiceoverReady ==
  /\ isLoading
  /\ combinedAudio' = TRUE
  /\ isLoading' = FALSE
  /\ container' = <<[gen |-> FreshId(TreeGens), els |-> stages[1].svg]>>
  /\ UNCHANGED <<inputVars, currentStageIndex, isPlaying, progress, currentClauseIndex,
                 audioRef, progressIntervalRef, clauseTimingsRef, timerVars,
                 startTime, animationFrame, frames, now, historyVars>>

\* generateCombinedVoiceover rejects: no audio, stage 0 is still displayed.
VoiceoverFailed ==
  /\ isLoading
  /\ isLoading' = FALSE
  /\ container' = <<[gen |-> FreshId(TreeGens), els |-> stages[1].svg]>>
  /\ UNCHANGED <<inputVars, currentStageIndex, isPlaying, combinedAudio, progress,
                 currentClauseIndex, audioRef, progressIntervalRef, clauseTimingsRef,
                 timerVars, startTime, animationFrame, frames, now, historyVars>>

\* Time passes by one unit: allowed when no callback is due, and only while
\* something observes the clock; every playing audio element advances.
Due == {x \in intervals \cup timeouts \cup frames : x.due <= now}
ClockObserved == intervals # {} \/ timeouts # {} \/ frames # {}
                 \/ \E a \in DOMAIN audios :
                      ~audios[a].paused /\ audios[a].currentTime < audioDuration

TickUpTo(limit) ==
  /\ now < limit
  /\ Due = {}
  /\ ClockObserved
  /\ now' = now + 1
  /\ audios' = [a \in DOMAIN audios |->
                  IF audios[a].paused THEN audios[a]
                  ELSE [audios[a] EXCEPT
                          !.currentTime = Min(audios[a].currentTime + 1, audioDuration)]]
  /\ finished' = <<>>
  /\ lastCall' = <<>>
  /\ UNCHANGED <<inputVars, playerVars, intervals, timeouts, engineVars,
                 plays, stops, calls, idleSinceStop, stopMid, completions, audiosCreated,
                 displayLog>>

Tick == TickUpTo(MaxTime)

\* ---------------------------------------------------------- specification
DurationProfiles == UNION {[1..n -> 1..MaxSegDur] : n \in 1..MaxStages}

Init ==
  /\ \E durs \in DurationProfiles :
       /\ stages = [k \in 1..Len(durs) |-> StageOf(k)]
       /\ segments = SegmentsOf(durs)
       /\ audioDuration \in {SumSeq(durs)} \cup
                            (IF durs[Len(durs)] >= 2 THEN {SumSeq(durs) - 1} ELSE {})
  /\ currentStageIndex = 0
  /\ isPlaying = FALSE
  /\ isLoading = TRUE
  /\ combinedAudio = FALSE
  /\ progress = Pct(0)
  /\ currentClauseIndex = -1
  /\ audioRef = 0
  /\ progressIntervalRef = 0
  /\ clauseTimingsRef = <<>>
  /\ audios = <<>>
  /\ intervals = {}
  /\ timeouts = {}
  /\ frames = {}
  /\ now = 1
  /\ container = <<>>
  /\ startTime = 0
  /\ animationFrame = 0
  /\ plays = 0
  /\ stops = 0
  /\ calls = 0
  /\ idleSinceStop = FALSE
  /\ stopMid = FALSE
  /\ completions = 0
  /\ audiosCreated = 0
  /\ displayLog = <<>>
  /\ finished = <<>>
  /\ lastCall = <<>>

Next ==
  \/ VoiceoverReady
  \/ VoiceoverFailed
  \/ PlayClicked
  \/ PlayWithoutAudio
  \/ handleStop
  \/ \E iv \in intervals : PollTick(iv)
  \/ \E t \in timeouts : StageTimeout(t)
  \/ \E f \in frames : Frame(f)
  \/ Tick

Spec == Init /\ [][Next]_vars

\* A session in which Stop is never pressed.  Timers and animation frames that
\* are due do run and the clock does advance: the browser's event loop is fair.
LiveHorizon == 1 + MaxPlays * (MaxStages * (MaxSegDur + PauseDelay) + MorphDuration)
TickLive == TickUpTo(LiveHorizon)

NextLive ==
  \/ VoiceoverReady
  \/ VoiceoverFailed
  \/ PlayClicked
  \/ PlayWithoutAudio
  \/ \E iv \in intervals : PollTick(iv)
  \/ \E t \in timeouts : StageTimeout(t)
  \/ \E f \in frames : Frame(f)
  \/ TickLive

LiveSpec ==
  /\ Init
  /\ [][NextLive]_vars
  /\ WF_vars(\E iv \in intervals : PollTick(iv))
  /\ WF_vars(\E t \in timeouts : StageTimeout(t))
  /\ WF_vars(\E f \in frames : Frame(f))
  /\ WF_vars(TickLive)

\* The display handle driven directly: displayStage and cancel called in any
\* order with any of the diagrams, frames running as the clock advances.
MorphHorizon == 2 * MorphDuration + 1
TickMorph == TickUpTo(MorphHorizon)

DisplayCall ==
  /\ calls < MaxCalls
  /\ \E svg \in Range(Diagrams), animate \in BOOLEAN :
       /\ displayStage(svg, animate)
       /\ lastCall' = <<[fn |-> "displayStage", svg |-> svg, animate |-> animate]>>
  /\ finished' = <<>>
  /\ calls' = calls + 1
  /\ UNCHANGED <<inputVars, playerVars, timerVars, now,
                 plays, stops, idleSinceStop, stopMid, completions, audiosCreated,
                 displayLog>>

CancelCall ==
  /\ calls < MaxCalls
  /\ cancel
  /\ lastCall' = <<[fn |-> "cancel"]>>
  /\ finished' = <<>>
  /\ calls' = calls + 1
  /\ UNCHANGED <<inputVars, playerVars, timerVars, now,
                 plays, stops, idleSinceStop, stopMid, completions, audiosCreated,
                 displayLog>>

InitMorph ==
  /\ stages = <<StageOf(1)>>
  /\ segments = SegmentsOf(<<1>>)
  /\ audioDuration = 1
  /\ currentStageIndex = 0
  /\ isPlaying = FALSE
  /\ isLoading = FALSE
  /\ combinedAudio = FALSE
  /\ progress = Pct(0)
  /\ currentClauseIndex = -1
  /\ audioRef = 0
  /\ progressIntervalRef = 0
  /\ clauseTimingsRef = <<>>
  /\ audios = <<>>
  /\ intervals = {}
  /\ timeouts = {}
  /\ frames = {}
  /\ now = 1
  /\ container = <<>>
  /\ startTime = 0
  /\ animationFrame = 0
  /\ plays = 0
  /\ stops = 0
  /\ calls = 0
  /\ idleSinceStop = FALSE
  /\ stopMid = FALSE
  /\ completions = 0
  /\ audiosCreated = 0
  /\ displayLog = <<>>
  /\ finished = <<>>
  /\ lastCall = <<>>

NextMorph ==
  \/ DisplayCall
  \/ CancelCall
  \/ \E f \in frames : Frame(f)
  \/ TickMorph

SpecMorph == InitMorph /\ [][NextMorph]_vars

\* The text functions called directly, on scripts put together from a few
\* pieces of text and on the scripts of the stages.
LongWord == <<"b", "c", "d", "e", "f", "g", "h", "i", "j", "k", "l">>
TextPieces == {<<"A">>, <<" ">>, <<",">>, <<".">>, <<"\n">>, LongWord}
ExampleScript == <<"A", ",", " ", "B", ".", " ", "C", "!">>
MixedScript == <<"A", " ", "B", ",", " ", "\n", "C", " ">>
MarkScripts == {<<"A", m, " ", "B">> : m \in ClauseMarks \cup {"-", "A"}}

RECURSIVE Concat(_)
Concat(ps) == IF Len(ps) = 0 THEN <<>> ELSE ps[1] \o Concat(Tail(ps))

TextInputs ==
  {Concat(ps) : ps \in UNION {[1..n -> TextPieces] : n \in 0..MaxPieces}}
    \cup MarkScripts \cup {ExampleScript, MixedScript, ScriptA, ScriptB, ScriptC}

CallSplitIntoSentences ==
  /\ lastCall' = <<[fn |-> "splitIntoSentences", text |-> stages[1].script,
                    value |-> splitIntoSentences(stages[1].script)]>>
  /\ finished' = <<>>
  /\ UNCHANGED <<inputVars, playerVars, timerVars, engineVars, now,
                 plays, stops, calls, idleSinceStop, stopMid, completions, audiosCreated,
                 displayLog>>

CallSplitIntoClauses ==
  /\ lastCall' = <<[fn |-> "splitIntoClauses", text |-> stages[1].script,
                    value |-> splitIntoClauses(stages[1].script)]>>
  /\ finished' = <<>>
  /\ UNCHANGED <<inputVars, playerVars, timerVars, engineVars, now,
                 plays, stops, calls, idleSinceStop, stopMid, completions, audiosCreated,
                 displayLog>>

\* const clauses = splitIntoClauses(script);
\* const timings = calculateClauseTimings(clauses, segment.duration);
CallCalculateClauseTimings ==
  /\ \E clauses \in {splitIntoClauses(stages[1].script)} :
       lastCall' = <<[fn |-> "calculateClauseTimings", clauses |-> clauses,
                      duration |-> segments[1].duration * UnitMs,
                      value |-> calculateClauseTimings(clauses,
                                                       segments[1].duration * UnitMs)]>>
  /\ finished' = <<>>
  /\ UNCHANGED <<inputVars, playerVars, timerVars, engineVars, now,
                 plays, stops, calls, idleSinceStop, stopMid, completions, audiosCreated,
                 displayLog>>

\* CaptionPanel rendered with the script of the stage
RenderCaptionPanel ==
  /\ lastCall' = <<[fn |-> "CaptionPanel", text |-> stages[1].script,
                    value |-> sentenceClauseMap(stages[1].script)]>>
  /\ finished' = <<>>
  /\ UNCHANGED <<inputVars, playerVars, timerVars, engineVars, now,
                 plays, stops, calls, idleSinceStop, stopMid, completions, audiosCreated,
                 displayLog>>

InitText ==
  /\ \E text \in TextInputs : stages = <<[svg |-> DiagramA, script |-> text]>>
  /\ \E d \in 1..MaxSegDur :
       /\ segments = SegmentsOf(<<d>>)
       /\ audioDuration = d
  /\ currentStageIndex = 0
  /\ isPlaying = FALSE
  /\ isLoading = FALSE
  /\ combinedAudio = FALSE
  /\ progress = Pct(0)
  /\ currentClauseIndex = -1
  /\ audioRef = 0
  /\ progressIntervalRef = 0
  /\ clauseTimingsRef = <<>>
  /\ audios = <<>>
  /\ intervals = {}
  /\ timeouts = {}
  /\ frames = {}
  /\ now = 1
  /\ container = <<>>
  /\ startTime = 0
  /\ animationFrame = 0
  /\ plays = 0
  /\ stops = 0
  /\ calls = 0
  /\ idleSinceStop = FALSE
  /\ stopMid = FALSE
  /\ completions = 0
  /\ audiosCreated = 0
  /\ displayLog = <<>>
  /\ finished = <<>>
  /\ lastCall = <<>>

NextText ==
  \/ CallSplitIntoSentences
  \/ CallSplitIntoClauses
  \/ CallCalculateClauseTimings
  \/ RenderCaptionPanel

SpecText == InitText /\ [][NextText]_vars

\* ------------------------------------------------- voiceover segments
\* script.split(/\s+/).length: one more than the number of whitespace runs
WordCount(script) ==
  1 + Cardinality({i \in 1..Len(script) :
                     IsSpace(script[i]) /\ (i = 1 \/ ~IsSpace(script[i - 1]))})

\* (wordCount / wordsPerMinute) * 60, in milliseconds
estimateAudioDuration(wordCount) == (wordCount * 60 * 1000) \div WordsPerMinute

\* wordCounts.forEach(...): segment times are numerators over den, milliseconds;
\* each segment lasts wordCount / totalWords of speakingDuration and pause
\* follows every segment but the last.
RECURSIVE ProportionalSegments(_, _, _, _, _)
ProportionalSegments(wordCounts, totalWords, speakingDuration, pause, currentTime) ==
  IF Len(wordCounts) = 0 THEN <<>>
  ELSE LET segmentDuration == wordCounts[1] * speakingDuration
       IN <<[startTime |-> currentTime, endTime |-> currentTime + segmentDuration,
             duration |-> segmentDuration, den |-> totalWords]>>
            \o ProportionalSegments(Tail(wordCounts), totalWords, speakingDuration, pause,
                                    currentTime + segmentDuration + pause * totalWords)

WordCounts(scripts) == [i \in 1..Len(scripts) |-> WordCount(scripts[i])]

\* the server with Piper: the duration is estimated from the word count
PiperSegments(scripts) ==
  LET wordCounts == WordCounts(scripts)
      totalWords == SumSeq(wordCounts)
      totalDuration == estimateAudioDuration(totalWords)
      speakingDuration == totalDuration - VoicePauseMs * (Len(scripts) - 1)
  IN ProportionalSegments(wordCounts, totalWords, speakingDuration, VoicePauseMs, 0)

\* The reply of the speech service: its duration and, per utterance, "timed" (a
\* snippet with timestamps), "untimed" (a snippet without) or "empty" (no
\* snippet); the sequence is empty when the reply carries no snippets.
SnippetKinds == {"timed", "untimed", "empty"}
SnippetBegin(index) == (index - 1) * (SnippetMs + VoicePauseMs)

RECURSIVE SnippetSegments(_, _)
SnippetSegments(snippets, index) ==
  IF index > Len(snippets) THEN <<>>
  ELSE (IF snippets[index] = "empty" THEN <<>>
        ELSE LET begin == IF snippets[index] = "timed" THEN SnippetBegin(index) ELSE 0
                 end == IF snippets[index] = "timed" THEN SnippetBegin(index) + SnippetMs
                        ELSE begin
             IN <<[startTime |-> begin, endTime |-> end, duration |-> end - begin,
                   den |-> 1]>>)
       \o SnippetSegments(snippets, index + 1)

\* the server with Hume: snippet timestamps, or word counts over the reply's duration
HumeSegments(scripts, reply) ==
  IF Len(reply.snippets) > 0
  THEN SnippetSegments(reply.snippets, 1)
  ELSE LET wordCounts == WordCounts(scripts)
           totalWords == SumSeq(wordCounts)
           speakingDuration == reply.duration - VoicePauseMs * (Len(scripts) - 1)
       IN ProportionalSegments(wordCounts, totalWords, speakingDuration, VoicePauseMs, 0)

\* the client: word counts over the measured duration, no pauses
ClientSegments(scripts, actualDuration) ==
  LET wordCounts == WordCounts(scripts)
  IN ProportionalSegments(wordCounts, SumSeq(wordCounts), actualDuration, 0, 0)

StageScripts == [k \in 1..Len(stages) |-> stages[k].script]

VoiceUnchanged ==
  /\ finished' = <<>>
  /\ UNCHANGED <<inputVars, playerVars, timerVars, engineVars, now,
                 plays, stops, calls, idleSinceStop, stopMid, completions, audiosCreated,
                 displayLog>>

CallPiperVoiceover ==
  /\ lastCall' = <<[fn |-> "generateCombinedVoiceover", by |-> "piper",
                    scripts |-> StageScripts, value |-> PiperSegments(StageScripts)]>>
  /\ VoiceUnchanged

CallHumeVoiceover ==
  /\ \E snippets \in {<<>>} \cup [1..Len(stages) -> SnippetKinds] :
       lastCall' = <<[fn |-> "generateCombinedVoiceover", by |-> "hume",
                      scripts |-> StageScripts,
                      value |-> HumeSegments(StageScripts,
                                             [duration |-> audioDuration * UnitMs,
                                              snippets |-> snippets])]>>
  /\ VoiceUnchanged

CallClientVoiceover ==
  /\ lastCall' = <<[fn |-> "generateCombinedVoiceover", by |-> "client",
                    scripts |-> StageScripts,
                    value |-> ClientSegments(StageScripts, audioDuration * UnitMs)]>>
  /\ VoiceUnchanged

VoiceScripts == {ScriptA, ScriptC}

InitVoice ==
  /\ \E scripts \in UNION {[1..n -> VoiceScripts] : n \in 1..MaxScripts} :
       stages = [k \in 1..Len(scripts) |->
                   [svg |-> Diagrams[((k - 1) % Len(Diagrams)) + 1], script |-> scripts[k]]]
  /\ segments = <<>>
  /\ audioDuration \in 1..(MaxSegDur * MaxStages)
  /\ currentStageIndex = 0
  /\ isPlaying = FALSE
  /\ isLoading = TRUE
  /\ combinedAudio = FALSE
  /\ progress = Pct(0)
  /\ currentClauseIndex = -1
  /\ audioRef = 0
  /\ progressIntervalRef = 0
  /\ clauseTimingsRef = <<>>
  /\ audios = <<>>
  /\ intervals = {}
  /\ timeouts = {}
  /\ frames = {}
  /\ now = 1
  /\ container = <<>>
  /\ startTime = 0
  /\ animationFrame = 0
  /\ plays = 0
  /\ stops = 0
  /\ calls = 0
  /\ idleSinceStop = FALSE
  /\ stopMid = FALSE
  /\ completions = 0
  /\ audiosCreated = 0
  /\ displayLog = <<>>
  /\ finished = <<>>
  /\ lastCall = <<>>

NextVoice ==
  \/ CallPiperVoiceover
  \/ CallHumeVoiceover
  \/ CallClientVoiceover

SpecVoice == InitVoice /\ [][NextVoice]_vars

\* ------------------------------------------------------------ properties
Observable == <<isPlaying, currentStageIndex, progress, currentClauseIndex>>
AtRest == ~isPlaying /\ currentStageIndex = 0 /\ progress = Pct(0)
          /\ currentClauseIndex = -1
ExpectedLog == [k \in 1..NumStages |-> [stage |-> k - 1, animate |-> k > 1]]
IsPrefix(a, b) == Len(a) <= Len(b) /\ a = SubSeq(b, 1, Len(a))
\* a play() has been made and no stop() has followed it
InRun == plays > 0 /\ ~idleSinceStop

\* C1: between a stop() and the next play() the observable state stays (idle,
\* stage 0, progress 0, clause -1), no audio element plays and no polling
\* interval has been started: whatever was scheduled before the stop() is a no-op.
C1_StopLeavesNothingBehind ==
  idleSinceStop =>
    /\ AtRest
    /\ \A a \in DOMAIN audios : audios[a].paused
    /\ \A iv \in intervals : iv.stale

\* C2: at most one polling interval is active in every reachable state.
C2_OnePollingInterval == Cardinality(intervals) <= 1

\* C3: at most one morph frame loop is pending in every reachable state, whatever
\* the segment durations are (here in a session in which stop() is never called).
C3_OneMorphLoop == Cardinality(frames) <= 1

\* C4: right after stop() returns, from any state, every audio element is paused,
\* no polling interval is active, the morpher holds no frame handle and no start
\* timestamp (cancel() ran), and the observable state is (idle, 0, 0, -1).
C4_StopResetsEverything ==
  [][stops' # stops =>
       /\ \A a \in DOMAIN audios' : audios'[a].paused
       /\ intervals' = {}
       /\ animationFrame' = 0 /\ startTime' = 0
       /\ ~isPlaying' /\ currentStageIndex' = 0 /\ progress' = Pct(0)
       /\ currentClauseIndex' = -1]_vars

\* C5: a play() restarts at stage 0 (displayStage(stage 0, false), audio at segment
\* 0's startTime), and after a stop() made while a polling loop was running and a
\* later play(), no callback created before that stop() changes the stage index,
\* the progress or the active clause.
C5_CleanRestart ==
  [][/\ (plays' # plays =>
           /\ displayLog' = <<[stage |-> 0, animate |-> FALSE]>>
           /\ currentStageIndex' = 0
           /\ audios'[audioRef'].currentTime = segments[1].startTime)
     /\ ((stopMid /\ ~idleSinceStop /\ Observable' # Observable) =>
           /\ ~ \E iv \in intervals : iv.stale /\ PollTick(iv)
           /\ ~ \E t \in timeouts : t.stale /\ StageTimeout(t))]_vars

\* C6: in a run of play() that no stop() interrupts, displayStage is called for
\* stages 0, 1, .., N-1 in that order, animate = false for stage 0 only, each stage
\* once: the calls so far are a prefix of that list, and all of it at completion.
C6_DisplaysInOrder ==
  InRun => /\ IsPrefix(displayLog, ExpectedLog)
           /\ (~isPlaying => displayLog = ExpectedLog)

\* C7: onComplete fires exactly once per uninterrupted run, at the end of the last
\* segment (never while the run is still playing), and never between a stop() and
\* the next play().
C7_CompletesOnce ==
  /\ idleSinceStop => completions = 0
  /\ InRun => completions = (IF isPlaying THEN 0 ELSE 1)

\* C8: when stop() is never called and the track is long enough for the audio
\* position to reach every segment's endTime, a play() is eventually followed by
\* Idle, after displayStage/playStage ran for stages 0 .. N-1 in order.
C8_RunTerminates ==
  [](isPlaying /\ audioDuration >= LastEnd =>
       <>(~isPlaying /\ displayLog = ExpectedLog /\ intervals = {} /\ timeouts = {}))

C8_Witness ==
  /\ plays > 0 /\ ~isPlaying /\ NumStages = MaxStages
  /\ displayLog = ExpectedLog /\ completions = 1

\* The displayed svg and the primitives of it that a completed, undisturbed morph
\* towards the diagram finished[1].target was computed on.
MorphJustCompleted ==
  /\ finished # <<>>
  /\ finished[1].solo
  /\ Len(container) = 1
  /\ container[1].gen = finished[1].gen

\* C9: when an undisturbed animated display of B has run its full duration, every
\* displayed primitive whose identity token occurs in B has, for every animatable
\* attribute of B's primitive, exactly B's value.
C9_EndsOnTarget ==
  MorphJustCompleted =>
    LET B == finished[1].target
        shown == container[1].els
    IN \A i \in 1..Len(shown) : \A j \in 1..Len(B) :
         (shown[i].id # "" /\ shown[i].id = B[j].id /\ j = ElementsById(B)[B[j].id]) =>
           \A a \in MorphAttrs \cap DOMAIN B[j].attrs :
             a \in DOMAIN shown[i].attrs /\ shown[i].attrs[a] = B[j].attrs[a]

\* C10: while an undisturbed animated display of B runs, every displayed attribute
\* that no transition entry covers keeps its value from frame to frame, and the
\* frame that completes the transition leaves B's primitive tree on display.
C10_ReplacedByTarget ==
  [][\A f \in frames :
       (Frame(f) /\ f.solo /\ Len(container) = 1 /\ container[1].gen = f.gen) =>
         /\ \A i \in 1..Len(container[1].els) :
              \A a \in DOMAIN container[1].els[i].attrs :
                (~ \E t \in f.trans : t.el = i /\ t.attr = a) =>
                  container'[1].els[i].attrs[a] = container[1].els[i].attrs[a]
         /\ finished' # <<>> => container'[1].els = f.target]_vars

\* C11: after cancel() has returned, a frame callback of a morph started before
\* that cancel() changes no displayed attribute and schedules no further frame.
C11_CancelStopsEveryLoop ==
  [][\A f \in frames :
       (f.stale /\ Frame(f)) =>
         /\ container' = container
         /\ f.id \notin {g.id : g \in frames'}]_vars

\* C12: in one session at most one audio element is ever created: every play()
\* and every playStage after the first reuses it.
C12_OneAudioElement == audiosCreated <= 1

\* C13: handlePlay invoked while the audio and its segments are not available
\* changes nothing: no display call, no timer, interval or frame, no audio
\* element, and stage index, progress, active clause and playing flag as before.
C13_PlayWithoutAudioIsNoOp ==
  [][(calls' # calls /\ ~combinedAudio) =>
       /\ UNCHANGED <<playerVars, timerVars, engineVars>>
       /\ UNCHANGED <<displayLog, audiosCreated, completions>>]_vars

C13_Witness == calls > 0 /\ ~combinedAudio /\ ~isLoading /\ Len(container) = 1

\* C14: displayStage(svg, animate) with animate = false, or with nothing on
\* display, leaves exactly the target diagram's primitives on display and
\* schedules no frame: the pending frames and the morpher's fields are as before.
C14_ReplaceVerbatim ==
  [][(lastCall' # <<>> /\ lastCall'[1].fn = "displayStage"
       /\ (~lastCall'[1].animate \/ Len(container) = 0)) =>
       /\ Len(container') = 1
       /\ container'[1].els = lastCall'[1].svg
       /\ UNCHANGED <<frames, animationFrame, startTime>>]_vars

\* a non-animated display has just replaced a tree that a morph loop still holds
C14_Witness ==
  /\ lastCall # <<>> /\ lastCall[1].fn = "displayStage" /\ ~lastCall[1].animate
  /\ frames # {}
  /\ \A f \in frames : f.gen # container[1].gen

FirstWithId(svg, id) ==
  CHOOSE i \in 1..Len(svg) : svg[i].id = id /\ \A j \in 1..(i - 1) : svg[j].id # id

\* C15: when an id occurs on several primitives of the source or of the target
\* diagram, every transition entry of a morph is on the first source primitive
\* carrying the id and takes its end value from the first target primitive
\* carrying it.
C15_FirstOfDuplicates ==
  \A f \in frames :
    (Len(container) = 1 /\ container[1].gen = f.gen) =>
      \A t \in f.trans :
        LET id == container[1].els[t.el].id
            toEl == f.target[FirstWithId(f.target, id)]
        IN /\ t.el = FirstWithId(container[1].els, id)
           /\ t.attr \in DOMAIN toEl.attrs
           /\ t.to = toEl.attrs[t.attr]

\* C16: no morph takes up a fill or stroke value that is not a #RRGGBB string:
\* no transition entry of a pending morph loop starts from or ends on one.
C16_MalformedColourRejected ==
  \A f \in frames : \A t \in f.trans :
    t.type = "color" => (t.from.fmt = "hex6" /\ t.to.fmt = "hex6")

\* the weight of clause j and the weight of the clauses before clause i
Weight(clauses, j) == IF Len(clauses[j]) > MinWeight THEN Len(clauses[j]) ELSE MinWeight
RECURSIVE WeightBefore(_, _)
WeightBefore(clauses, i) ==
  IF i <= 1 THEN 0 ELSE WeightBefore(clauses, i - 1) + Weight(clauses, i - 1)

\* C17: calculateClauseTimings(clauses, duration) returns one offset per clause,
\* offset 1 is 0, the offsets never decrease, offset i is duration * (weight of
\* the clauses before i) / (weight of all clauses), and the time up to the next
\* offset (or to duration) is at least duration * 10 / (weight of all clauses).
C17_TimingsByWeight ==
  (lastCall # <<>> /\ lastCall[1].fn = "calculateClauseTimings") =>
    LET c == lastCall[1].clauses
        d == lastCall[1].duration
        o == lastCall[1].value
        n == Len(c)
        total == WeightBefore(c, n + 1)
        \* offset i + 1, or the duration after the last clause, times total
        upTo(i) == d * WeightBefore(c, i + 1)
    IN /\ Len(o) = n
       /\ n > 0 => o[1].num = 0
       /\ \A i \in 1..n :
            /\ o[i].den > 0
            /\ o[i].num * total = d * WeightBefore(c, i) * o[i].den
            /\ upTo(i) - d * WeightBefore(c, i) >= d * MinWeight
       /\ \A i \in 1..(n - 1) : o[i].num * o[i + 1].den <= o[i + 1].num * o[i].den

\* timings of a short clause followed by one longer than the floor
C17_Witness ==
  /\ lastCall # <<>> /\ lastCall[1].fn = "calculateClauseTimings"
  /\ Len(lastCall[1].clauses) >= 2
  /\ Len(lastCall[1].clauses[1]) < MinWeight
  /\ Len(lastCall[1].clauses[2]) > MinWeight
  /\ lastCall[1].value[2].num > 0

\* the largest index (0-based, -1 when none) whose offset is at most t milliseconds
LargestAtOrBefore(timings, t) ==
  LET at == {i \in 1..Len(timings) : timings[i].num <= t * timings[i].den}
  IN IF at = {} THEN -1 ELSE (CHOOSE i \in at : \A j \in at : j <= i) - 1

\* C18: on every polling tick (the tick that ends the segment set aside) the
\* clause index exposed afterwards is the largest i with offset[i] <= t, where
\* t = audio time - start of the current stage's segment + 0.1 s and the offsets
\* are the timings of the current stage's script; -1 when there is none.
C18_ActiveClause ==
  [][\A iv \in intervals :
       (PollTick(iv)
          /\ ~SegmentEnded(audios[iv.audio].currentTime, segments[currentStageIndex + 1]))
       => currentClauseIndex' =
            LargestAtOrBefore(StageTimings(currentStageIndex),
                              (audios[iv.audio].currentTime
                                 - segments[currentStageIndex + 1].startTime) * UnitMs
                                + LookaheadMs)]_vars

\* The pieces of s between the whitespace runs that start right after a mark.
PiecesBetweenCuts(s, marks) ==
  LET cuts == {a \in 2..Len(s) : IsSpace(s[a]) /\ s[a - 1] \in marks}
      n == Cardinality(cuts)
      kth(k) == CHOOSE c \in cuts : Cardinality({d \in cuts : d < c}) = k - 1
      runEnd(a) == CHOOSE b \in a..Len(s) :
                     /\ \A j \in a..b : IsSpace(s[j])
                     /\ b = Len(s) \/ ~IsSpace(s[b + 1])
      from(k) == IF k = 0 THEN 1 ELSE runEnd(kth(k)) + 1
      to(k) == IF k = n THEN Len(s) ELSE kth(k + 1) - 1
  IN [k \in 1..(n + 1) |-> SubSeq(s, from(k - 1), to(k - 1))]

\* p without its leading and trailing whitespace
Trimmed(p) ==
  LET ink == {j \in 1..Len(p) : ~IsSpace(p[j])}
  IN IF ink = {} THEN <<>>
     ELSE SubSeq(p, CHOOSE j \in ink : \A k \in ink : j <= k,
                    CHOOSE j \in ink : \A k \in ink : k <= j)

NonEmpty(p) == Len(p) > 0

\* C19: splitIntoClauses(text) is the pieces of text between the whitespace runs
\* that immediately follow one of . ! ? : ; , each trimmed, the empty ones
\* dropped, in order; "A, B. C!" gives "A,", "B.", "C!".
C19_SplitIntoClauses ==
  (lastCall # <<>> /\ lastCall[1].fn = "splitIntoClauses") =>
    LET text == lastCall[1].text
        pieces == PiecesBetweenCuts(text, {".", "!", "?", ":", ";", ","})
    IN /\ lastCall[1].value =
            SelectSeq([k \in 1..Len(pieces) |-> Trimmed(pieces[k])], NonEmpty)
       /\ text = ExampleScript =>
            lastCall[1].value = << <<"A", ",">>, <<"B", ".">>, <<"C", "!">> >>

\* a text split after a mark and not split at a space that follows a letter
C19_Witness ==
  /\ lastCall # <<>> /\ lastCall[1].fn = "splitIntoClauses"
  /\ Len(lastCall[1].value) >= 2
  /\ \E k \in 1..Len(lastCall[1].value) :
       \E j \in 1..Len(lastCall[1].value[k]) : IsSpace(lastCall[1].value[k][j])

\* clamp(x / y, 0, 1) * 100 as a fraction of 100, y > 0
ClampedPercent(x, y) ==
  IF x <= 0 THEN 0 ELSE IF x >= y THEN 100 * y ELSE 100 * x

\* C20: the progress exposed is always a number from 0 to 100, and after each
\* polling tick it is clamp((audio time - segment.startTime) / segment.duration,
\* 0, 1) * 100 for the tick's audio element and segment.
C20_ProgressClamped ==
  [][/\ progress'.den > 0
     /\ 0 <= progress'.num
     /\ progress'.num <= 100 * progress'.den
     /\ \A iv \in intervals :
          PollTick(iv) =>
            LET segment == segments[iv.stage + 1]
            IN progress'.num * segment.duration =
                 progress'.den * ClampedPercent(audios[iv.audio].currentTime
                                                  - segment.startTime,
                                                segment.duration)]_vars

C22_SegmentEnd ==
  [][/\ \A iv \in intervals :
          (PollTick(iv)
             /\ audios[iv.audio].currentTime # 0
             /\ SegmentEnded(audios[iv.audio].currentTime, segments[iv.stage + 1]))
          => /\ iv.id \notin {i.id : i \in intervals'}
             /\ progress' = Pct(100)
             /\ currentClauseIndex' = -1
             /\ iv.stage < NumStages - 1 =>
                  /\ Cardinality({t \in timeouts' : t.stage = iv.stage + 1}) = 1
                  /\ \A t \in timeouts' \ timeouts :
                       t.stage = iv.stage + 1 /\ t.due = now + PauseDelay
     /\ \A t \in timeouts :
          StageTimeout(t) => /\ t.stage = currentStageIndex + 1
                             /\ currentStageIndex' = currentStageIndex + 1]_vars

\* C23: at every frame callback of a morph, raw_progress is
\* clamp((now - t_first) / duration, 0, 1) with t_first the time of that morph's
\* own first callback; so it is 0 on the morph's first frame and, time moving
\* forward, never decreases between frames of the morph.
C23_OwnStartTime ==
  [][\A f \in frames :
       Frame(f) =>
         RawProgress = Min(now - (IF f.first = 0 THEN now ELSE f.first), MorphDuration)]_vars

\* C24: the frame of a morph at which raw_progress is 1 is the morph's last
\* one: no further frame is scheduled for it, its completion is signalled (once,
\* as no frame of it follows and none before signals it) and the start
\* timestamp is null afterwards.
C24_LastFrame ==
  [][\A f \in frames :
       Frame(f) =>
         IF RawProgress = MorphDuration
         THEN /\ f.id \notin {g.id : g \in frames'}
              /\ finished' = <<[target |-> f.target, gen |-> f.gen, solo |-> f.solo]>>
              /\ startTime' = 0
         ELSE /\ finished' = <<>>
              /\ \E g \in frames' : g.id = f.id /\ g.target = f.target /\ g.due > now]_vars

\* a morph that nothing disturbed has just run its last frame
C24_Witness ==
  /\ finished # <<>>
  /\ finished[1].solo
  /\ startTime = 0
  /\ frames = {}
  /\ Len(container) = 1 /\ container[1].gen = finished[1].gen

\* A write of attribute a of primitive el of a tree, morphing to target, is allowed: the
\* primitive has an identity token, the target has a primitive with that token,
\* a is one of the thirteen attributes, both primitives carry it and the raw
\* values recorded for the two sides differ.
AllowedWrite(tree, target, el, a, from, to) ==
  LET id == tree.els[el].id
  IN /\ id # ""
     /\ \E j \in 1..Len(target) :
          /\ target[j].id = id
          /\ \A k \in (j + 1)..Len(target) : target[k].id # id
          /\ a \in DOMAIN target[j].attrs
          /\ target[j].attrs[a] = to
     /\ a \in {"cx", "cy", "r", "rx", "ry", "x", "y", "width", "height",
               "fill", "stroke", "opacity", "stroke-width"}
     /\ a \in DOMAIN tree.els[el].attrs
     /\ from # to

\* C25: a frame callback of a morph writes only attributes of its transition
\* entries, and every entry is an allowed write; whatever a frame changes on
\* display is such an entry of the tree the morph was started on.
C25_WritesOnlyTransitions ==
  [][\A f \in frames :
       Frame(f) =>
         /\ \A k \in 1..Len(container) :
              /\ container'[k].gen = container[k].gen
              /\ Len(container'[k].els) = Len(container[k].els)
              /\ \A i \in 1..Len(container[k].els) :
                   /\ container'[k].els[i].id = container[k].els[i].id
                   /\ DOMAIN container'[k].els[i].attrs = DOMAIN container[k].els[i].attrs
                   /\ \A a \in DOMAIN container[k].els[i].attrs :
                        container'[k].els[i].attrs[a] # container[k].els[i].attrs[a] =>
                          /\ container[k].gen = f.gen
                          /\ \E t \in f.trans : t.el = i /\ t.attr = a
         /\ \A k \in 1..Len(container) :
              container[k].gen = f.gen =>
                \A t \in f.trans :
                  AllowedWrite(container[k], f.target, t.el, t.attr, t.from, t.to)]_vars

\* a morph has written to a diagram that also holds a primitive without a token
C25_Witness ==
  /\ Len(container) = 1
  /\ \E i \in 1..Len(container[1].els) : container[1].els[i].id = ""
  /\ \E f \in frames :
       /\ f.first # 0
       /\ f.gen = container[1].gen
       /\ \E t \in f.trans : container[1].els[t.el].attrs[t.attr] # t.from

Between(v, a, b) == (a <= v /\ v <= b) \/ (b <= v /\ v <= a)

\* C26: the eased progress is 0 at 0, 1 at 1 and never decreases in between,
\* and the value every frame writes lies between the start and the end value
\* of its transition entry: a number between the two numbers, each colour
\* channel between the two channels and within 0..255.
C26_NoOvershoot ==
  [][/\ easeInOutCubic(0) = 0
     /\ easeInOutCubic(MorphDuration) = EaseDen
     /\ \A e \in 0..(MorphDuration - 1) : easeInOutCubic(e) <= easeInOutCubic(e + 1)
     /\ \A f \in frames :
          Frame(f) =>
            \A k \in 1..Len(container) :
              container[k].gen = f.gen =>
                \A t \in f.trans :
                  LET v == container'[k].els[t.el].attrs[t.attr]
                  IN IF t.type = "color"
                     THEN \A ch \in {"r", "g", "b"} :
                            /\ Between(v[ch], parseColor(t.from)[ch], parseColor(t.to)[ch])
                            /\ v[ch] \in 0..255
                     ELSE Between(v, t.from, t.to)]_vars

RECURSIVE ClausesOfMap(_)
ClausesOfMap(map) == IF Len(map) = 0 THEN <<>> ELSE map[1].clauses \o ClausesOfMap(Tail(map))

\* C27: the clauses of the sentences of a script, taken sentence by sentence in
\* order, are exactly splitIntoClauses(script); so the clause the caption panel
\* finds for a global clause index is the clause of that index in the list the
\* controller computed the timings for.
C27_PanelClausesAgree ==
  (lastCall # <<>> /\ lastCall[1].fn = "CaptionPanel") =>
    LET map == lastCall[1].value
        clauses == splitIntoClauses(lastCall[1].text)
    IN /\ ClausesOfMap(map) = clauses
       /\ \A g \in 0..(Len(clauses) - 1) :
            LET k == activeSentenceIndex(map, g)
            IN /\ k >= 0
               /\ map[k + 1].clauses[g - map[k + 1].startClauseIndex + 1] = clauses[g + 1]

\* a script of two sentences, one of them with more than one clause
C27_Witness ==
  /\ lastCall # <<>> /\ lastCall[1].fn = "CaptionPanel"
  /\ Len(lastCall[1].value) >= 2
  /\ \E k \in 1..Len(lastCall[1].value) : Len(lastCall[1].value[k].clauses) >= 2

\* C28: a polling tick inside a segment never lowers the active clause index
\* and leaves it within -1 .. (number of clauses of the stage's script) - 1;
\* the index returns to -1 only when a stage is started, when a segment ends
\* or on stop().
C28_ClauseIndexMonotone ==
  [][/\ \A iv \in intervals :
          (PollTick(iv)
             /\ audios[iv.audio].currentTime # 0
             /\ ~SegmentEnded(audios[iv.audio].currentTime, segments[iv.stage + 1]))
          => /\ currentClauseIndex' >= currentClauseIndex
             /\ currentClauseIndex' >= -1
             /\ currentClauseIndex' <=
                  Len(splitIntoClauses(stages[currentStageIndex + 1].script)) - 1
     /\ (currentClauseIndex' = -1 /\ currentClauseIndex # -1) =>
          \/ plays' # plays
          \/ stops' # stops
          \/ \E t \in timeouts : StageTimeout(t)
          \/ \E iv \in intervals :
               /\ PollTick(iv)
               /\ SegmentEnded(audios[iv.audio].currentTime, segments[iv.stage + 1])]_vars

\* The track has come to its real end inside the segment of the current stage.
TrackEndedInSegment ==
  /\ isPlaying
  /\ audioRef # 0
  /\ audios[audioRef].currentTime = audioDuration
  /\ audioDuration < segments[currentStageIndex + 1].endTime

\* C29: when stop() is never called and the track ends before the position
\* reaches the current segment's endTime, the controller still leaves the
\* segment: it eventually moves to a later stage or, in the last stage, becomes
\* Idle with completion signalled.
C29_LeavesShortTrack ==
  \A k \in 0..(MaxStages - 1) :
    (TrackEndedInSegment /\ currentStageIndex = k)
      ~> (currentStageIndex > k \/ (~isPlaying /\ completions > 0))

\* C30: generateCombinedVoiceover returns one segment per script, each with
\* duration = endTime - startTime >= 0 and starting no earlier than the
\* previous segment ends, so that segments[stageIndex] is a well-formed segment
\* for every stage.
C30_SegmentsWellFormed ==
  (lastCall # <<>> /\ lastCall[1].fn = "generateCombinedVoiceover") =>
    LET segs == lastCall[1].value
    IN /\ Len(segs) = Len(lastCall[1].scripts)
       /\ \A i \in 1..Len(segs) :
            /\ segs[i].den > 0
            /\ segs[i].duration = segs[i].endTime - segs[i].startTime
            /\ segs[i].duration >= 0
            /\ i > 1 => segs[i].startTime * segs[i - 1].den
                          >= segs[i - 1].endTime * segs[i].den

====
